---- MODULE Spec2Model ----
(***************************************************************************)
(* CatalogInterface (src/src/mlpacke/interface/glue.py): a class-level     *)
(* singleton around a Glue client with a process-local partition cache.    *)
(*                                                                         *)
(* Strings that the code only concatenates or uses as dictionary keys      *)
(* (database, table, location) are TLA+ strings.  Partition values, which  *)
(* the code converts with str() and orders with Python's string            *)
(* comparison, are sequences of character codes (digits 0..9), so that     *)
(* the conversion and the lexicographic order are computed, not assumed.   *)
(***************************************************************************)
EXTENDS Integers, Sequences, FiniteSets, TLC

VARIABLES
    instance,      \* CatalogInterface._instance is not None
    client_glue,   \* CatalogInterface._client_glue: <<>> is None, <<c>> a client
    created,       \* number of create_client calls made so far
    cache,         \* CatalogInterface._cache: cache key -> list of partition keys
    svc,           \* the catalog service: table -> [exists, parts]
    frames,        \* per caller: the call in progress or the last one finished
    filled         \* per cache key: the table whose listing stored the entry

vars == <<instance, client_glue, created, cache, svc, frames, filled>>

-----------------------------------------------------------------------------
(* Bounds of the model *)

\* the service never puts more than this many partitions in one page
MaxPageLen == 2

(* Program constants *)

\* MaxResults=500 of the get_partitions request
MaxResults == 500

-----------------------------------------------------------------------------
(* Values *)

\* a Python int / a Python str given as a partition value
PyInt(n) == [t |-> "int", v |-> n]
PyStr(s) == [t |-> "str", v |-> s]

RECURSIVE Digits(_)
\* the decimal digits of a non-negative int, as character codes
Digits(n) == IF n < 10 THEN <<n>> ELSE Digits(n \div 10) \o <<n % 10>>

\* str(x) of glue.py:65, 137, 175
Str(x) == IF x.t = "int" THEN Digits(x.v) ELSE x.v

\* list(map(str, partition))
MapStr(partition) == [i \in 1..Len(partition) |-> Str(partition[i])]

RECURSIVE StrLess(_, _)
\* Python's a < b on two strings
StrLess(a, b) ==
    IF b = <<>> THEN FALSE
    ELSE IF a = <<>> THEN TRUE
    ELSE IF a[1] # b[1] THEN a[1] < b[1]
    ELSE StrLess(Tail(a), Tail(b))

\* the sort key of glue.py:107, lambda x: x["Values"][0]
SortKey(item) == item.Values[1]

RECURSIVE InsertDesc(_, _)
\* item placed after every element whose key is >= its own (stable)
InsertDesc(item, sorted) ==
    IF sorted = <<>> THEN <<item>>
    ELSE IF StrLess(SortKey(Head(sorted)), SortKey(item))
         THEN <<item>> \o sorted
         ELSE <<Head(sorted)>> \o InsertDesc(item, Tail(sorted))

RECURSIVE SortedDesc(_)
\* sorted(items, key=SortKey, reverse=True): descending, equal keys keep their order
SortedDesc(items) ==
    IF items = <<>> THEN <<>>
    ELSE InsertDesc(items[Len(items)], SortedDesc(SubSeq(items, 1, Len(items) - 1)))

\* [item["Values"] for item in sorted(response["Partitions"], ...)]
PageValues(page) == [i \in 1..Len(page) |-> SortedDesc(page)[i].Values]

\* [item[0] for item in partitions]
FirstValuesLast(partitions) ==
    [i \in 1..Len(partitions) |-> partitions[i][Len(partitions[i])]]
FirstValues(partitions) == [i \in 1..Len(partitions) |-> partitions[i][1]]

\* f"{database}.{table}"
CacheKey(database, table) == database \o "." \o table

-----------------------------------------------------------------------------
(* The inputs the callers draw from *)

T1 == <<"a.b", "c">>
T2 == <<"a", "b.c">>
T3 == <<"a", "c">>
Tables == {T1, T2, T3}

\* partition keys as the service stores them: "10"/"7", "2"/"7", "2"/"8"
KA == << <<1, 0>>, <<7>> >>
KB == << <<2>>, <<7>> >>
KC == << <<2>>, <<8>> >>

\* partition lists as callers pass them, ints and strs mixed: [10, 7],
\* ["10", "7"], [2, "7"] and [2, 8]
RawA == <<PyInt(10), PyInt(7)>>
RawAs == <<PyStr(<<1, 0>>), PyStr(<<7>>)>>
RawB == <<PyInt(2), PyStr(<<7>>)>>
RawC == <<PyInt(2), PyInt(8)>>
RawKeys == {RawA, RawAs, RawB, RawC}
\* the partitions the callers create and update
WriteKeys == {RawA, RawAs, RawB}

LocX == "s3://x"
LocY == "s3://y"
Locations == {LocX, LocY}

\* the tables the callers write to, and the one the catalog may lose
WriteTables == {T1}
Droppable == {T1}

Threads == {1, 2}

EntityNotFound == "EntityNotFoundException"
AlreadyExists == "AlreadyExistsException"
ServiceError == "ServiceError"
IndexError == "IndexError"

\* the empty continuation token, next_token = ""
EmptyToken == <<>>

-----------------------------------------------------------------------------
(* The catalog service: what each request of the client can answer *)

Record(key, location) == [Values |-> key, Location |-> location]

HasKey(parts, key) == \E i \in 1..Len(parts) : parts[i].Values = key

Find(parts, key) == CHOOSE i \in 1..Len(parts) : parts[i].Values = key

Min(a, b) == IF a < b THEN a ELSE b

\* client_glue.get_partition(DatabaseName, TableName, PartitionValues)
SvcGetPartition(s, table, key) ==
    {[err |-> ServiceError, body |-> <<>>]} \cup
    IF s[table].exists /\ HasKey(s[table].parts, key)
    THEN {[err |-> "", body |-> <<s[table].parts[Find(s[table].parts, key)]>>]}
    ELSE {[err |-> EntityNotFound, body |-> <<>>]}

\* client_glue.get_partitions(..., MaxResults, NextToken): one page from the
\* token's offset, of a length the service chooses
SvcGetPartitions(s, table, maxResults, token) ==
    LET parts == s[table].parts
        from == IF token = EmptyToken THEN 0 ELSE token[1]
        left == IF from < Len(parts) THEN Len(parts) - from ELSE 0
        most == Min(Min(maxResults, MaxPageLen), left)
        lens == IF most = 0 THEN {0} ELSE 1..most
    IN  {[err |-> ServiceError, Partitions |-> <<>>, hasNext |-> FALSE,
          NextToken |-> EmptyToken]} \cup
        IF ~s[table].exists
        THEN {[err |-> EntityNotFound, Partitions |-> <<>>, hasNext |-> FALSE,
               NextToken |-> EmptyToken]}
        ELSE {[err |-> "", Partitions |-> SubSeq(parts, from + 1, from + n),
               hasNext |-> from + n < Len(parts),
               NextToken |-> IF from + n < Len(parts) THEN <<from + n>> ELSE EmptyToken]
              : n \in lens}

\* client_glue.create_partition(DatabaseName, TableName, PartitionInput)
SvcCreatePartition(s, table, key, location) ==
    {[err |-> ServiceError, status |-> 0, svc |-> s],
     [err |-> "", status |-> 500, svc |-> s]} \cup
    IF ~s[table].exists
    THEN {[err |-> EntityNotFound, status |-> 0, svc |-> s]}
    ELSE IF HasKey(s[table].parts, key)
    THEN {[err |-> AlreadyExists, status |-> 0, svc |-> s]}
    ELSE {[err |-> "", status |-> 200,
           svc |-> [s EXCEPT ![table].parts = Append(@, Record(key, location))]]}

\* client_glue.update_partition(DatabaseName, TableName, PartitionValueList, PartitionInput)
SvcUpdatePartition(s, table, key, location) ==
    {[err |-> ServiceError, status |-> 0, svc |-> s],
     [err |-> "", status |-> 500, svc |-> s]} \cup
    IF s[table].exists /\ HasKey(s[table].parts, key)
    THEN {[err |-> "", status |-> 200,
           svc |-> [s EXCEPT ![table].parts[Find(s[table].parts, key)].Location = location]]}
    ELSE {[err |-> EntityNotFound, status |-> 0, svc |-> s]}

-----------------------------------------------------------------------------
(* Calls: a caller's frame holds the call's arguments and locals while it   *)
(* runs, and what it returned or raised once it is done.  nreq, ncreate,    *)
(* pages, sent, got, hit, prev, again and answer record what the call did,  *)
(* for the properties.                                                      *)

None == [kind |-> "None"]

\* prev of a get_all_partitions call: what the caller's call just before it
\* returned, when that was get_all_partitions of the same table
NoPrev == [flag |-> FALSE, val |-> <<>>]

NoFrame ==
    [op |-> "none", pc |-> "done", table |-> <<"", "">>, raw |-> <<>>,
     partition |-> <<>>, flag |-> FALSE, location |-> "",
     next_token |-> EmptyToken, partitions |-> <<>>,
     outcome |-> "returned", exc |-> "", ret |-> None, logs |-> <<>>,
     nreq |-> 0, ncreate |-> 0, pages |-> <<>>, sent |-> <<>>, got |-> <<>>,
     hit |-> FALSE, prev |-> NoPrev,
     again |-> "", answer |-> ""]

Ready(t) == frames[t].pc = "done"

\* a call that returns val
Returned(f, val) == [f EXCEPT !.pc = "done", !.outcome = "returned", !.ret = val]

\* a call that lets the exception exc reach its caller
Raised(f, exc) == [f EXCEPT !.pc = "done", !.outcome = "raised", !.exc = exc]

Logged(f, level) == [f EXCEPT !.logs = Append(@, level)]

-----------------------------------------------------------------------------
(* __new__ and get_client *)

\* cls.create_client("glue"): a new client, numbered by its creation
CreateClient ==
    /\ client_glue' = <<created + 1>>
    /\ created' = created + 1

\* cls.get_client(): the client is created when there is none
GetClientStep ==
    IF client_glue = <<>>
    THEN CreateClient
    ELSE UNCHANGED <<client_glue, created>>

\* CatalogInterface()
New(t) ==
    /\ Ready(t)
    /\ IF ~instance
       THEN instance' = TRUE /\ CreateClient
       ELSE UNCHANGED <<instance, client_glue, created>>
    /\ frames' = [frames EXCEPT ![t] = [NoFrame EXCEPT !.op = "new"]]
    /\ UNCHANGED <<cache, svc, filled>>

\* CatalogInterface.get_client()
GetClient(t) ==
    /\ Ready(t)
    /\ GetClientStep
    /\ frames' = [frames EXCEPT ![t] =
            Returned([NoFrame EXCEPT !.op = "get_client"],
                     [kind |-> "client", val |-> client_glue'[1]])]
    /\ UNCHANGED <<instance, cache, svc, filled>>

-----------------------------------------------------------------------------
(* get_partition *)

\* lines 67-75: the record, or None with a warning on EntityNotFoundException;
\* any other exception is not caught
GetPartitionRaisesNotFound(f, resp) ==
    IF resp.err = "" THEN Returned(f, [kind |-> "record", val |-> resp.body[1]])
    ELSE Raised(f, resp.err)
GetPartitionOutcome(f, resp) ==
    IF resp.err = "" THEN Returned(f, [kind |-> "record", val |-> resp.body[1]])
    ELSE IF resp.err = EntityNotFound THEN Returned(Logged(f, "warning"), None)
    ELSE Raised(f, resp.err)

\* what the service answered to get_partition
Answer(resp) ==
    IF resp.err = "" THEN "found"
    ELSE IF resp.err = EntityNotFound THEN "notfound" ELSE "error"

\* lines 66-70: the response is the service's; cls._cache is not read
GetPartitionResponsesCached(c, s, table, key) ==
    IF CacheKey(table[1], table[2]) \in DOMAIN c
          /\ \A i \in 1..Len(c[CacheKey(table[1], table[2])]) :
                c[CacheKey(table[1], table[2])][i] # key
    THEN {[err |-> EntityNotFound, body |-> <<>>]}
    ELSE SvcGetPartition(s, table, key)
GetPartitionResponses(c, s, table, key) == SvcGetPartition(s, table, key)

GetPartition(t, table, raw) ==
    /\ Ready(t)
    /\ GetClientStep
    /\ \E resp \in GetPartitionResponses(cache, svc, table, MapStr(raw)) :
          frames' = [frames EXCEPT ![t] =
              GetPartitionOutcome(
                  [NoFrame EXCEPT !.op = "get_partition", !.table = table,
                                  !.partition = MapStr(raw), !.answer = Answer(resp)],
                  resp)]
    /\ UNCHANGED <<instance, cache, svc, filled>>

-----------------------------------------------------------------------------
(* get_all_partitions and get_last_partition *)

\* line 89: f"{database}.{table}" in cls._cache
IsCachedNever(c, key) == FALSE
IsCached(c, key) == key \in DOMAIN c

\* lines 90-92 and 117-119: the first values, or the keys themselves
ListResult(partitions, only_first_value) ==
    IF only_first_value THEN FirstValues(partitions) ELSE partitions

\* line 105: partitions += [the page's keys, sorted]
AggregateOverwrite(partitions, page) == PageValues(page)
Aggregate(partitions, page) == partitions \o PageValues(page)

\* line 116: cls._cache[f"{database}.{table}"] = partitions
StoredNot(c, key, partitions) == c
StoredIfAbsent(c, key, partitions) ==
    IF key \in DOMAIN c THEN c
    ELSE [k \in DOMAIN c \cup {key} |-> IF k = key THEN partitions ELSE c[k]]
Stored(c, key, partitions) ==
    [k \in DOMAIN c \cup {key} |-> IF k = key THEN partitions ELSE c[k]]

\* line 112: next_token = response["NextToken"]
NextTokenStale(resp) == EmptyToken
NextTokenOf(resp) == resp.NextToken

\* an exception other than EntityNotFoundException leaves the try block before
\* line 116: cls._cache is not assigned
CacheAfterErrorStores(c, key, partitions) == Stored(c, key, partitions)
CacheAfterError(c, key, partitions) == c

\* the table whose listing stored the entry of key
Filled(fl, key, table) ==
    [k \in DOMAIN fl \cup {key} |-> IF k = key THEN table ELSE fl[k]]

\* the result of the call f, if f is a get_all_partitions call of the table
\* that returned
Prev(f, table) ==
    IF f.op = "get_all_partitions" /\ f.table = table /\ f.outcome = "returned"
    THEN [flag |-> f.flag, val |-> <<f.ret.val>>]
    ELSE NoPrev

\* get_all_partitions returns ListResult(listing); get_last_partition (line 208)
\* goes on to take its element 0
ListFinishNoneOnEmpty(f, listing) ==
    LET out == ListResult(listing, f.flag)
    IN  IF f.op = "get_all_partitions"
        THEN Returned(f, [kind |-> "list", val |-> out])
        ELSE IF out = <<>>
        THEN Returned(f, None)
        ELSE Returned(f, [kind |-> IF f.flag THEN "str" ELSE "key", val |-> out[1]])
ListFinish(f, listing) ==
    LET out == ListResult(listing, f.flag)
    IN  IF f.op = "get_all_partitions"
        THEN Returned(f, [kind |-> "list", val |-> out])
        ELSE IF out = <<>>
        THEN Raised(f, IndexError)
        ELSE Returned(f, [kind |-> IF f.flag THEN "str" ELSE "key", val |-> out[1]])

\* lines 87-95: the cache check; a hit returns, a miss starts the pagination
ListStart(t, op, table, flag) ==
    LET key == CacheKey(table[1], table[2])
        f == [NoFrame EXCEPT !.op = op, !.table = table, !.flag = flag,
                             !.hit = key \in DOMAIN cache,
                             !.prev = IF op = "get_all_partitions"
                                      THEN Prev(frames[t], table) ELSE NoPrev]
    IN  /\ Ready(t)
        /\ GetClientStep
        /\ IF IsCached(cache, key)
           THEN frames' = [frames EXCEPT ![t] = ListFinish(f, cache[key])]
           ELSE frames' = [frames EXCEPT ![t] =
                        [f EXCEPT !.pc = "paging", !.outcome = "running",
                                  !.next_token = EmptyToken, !.partitions = <<>>]]
        /\ UNCHANGED <<instance, cache, svc, filled>>

\* lines 97-119: one get_partitions request and what follows its answer
ListPage(t) ==
    LET f == frames[t]
        key == CacheKey(f.table[1], f.table[2])
    IN  /\ f.pc = "paging"
        /\ \E resp \in SvcGetPartitions(svc, f.table, MaxResults, f.next_token) :
             LET g == [f EXCEPT !.nreq = @ + 1, !.sent = Append(@, f.next_token)]
                 all == Aggregate(f.partitions, resp.Partitions)
                 got == [g EXCEPT !.partitions = all,
                                  !.pages = Append(@, [i \in 1..Len(resp.Partitions) |->
                                                          resp.Partitions[i].Values]),
                                  !.got = Append(@, [hasNext |-> resp.hasNext,
                                                     NextToken |-> resp.NextToken])]
             IN  IF resp.err = "" /\ resp.hasNext
                 THEN /\ frames' = [frames EXCEPT ![t] =
                              [got EXCEPT !.next_token = NextTokenOf(resp)]]
                      /\ UNCHANGED <<cache, filled>>
                 ELSE IF resp.err = ""
                 THEN /\ cache' = Stored(cache, key, all)
                      /\ filled' = Filled(filled, key, f.table)
                      /\ frames' = [frames EXCEPT ![t] = ListFinish(got, all)]
                 ELSE IF resp.err = EntityNotFound
                 THEN /\ cache' = Stored(cache, key, f.partitions)
                      /\ filled' = Filled(filled, key, f.table)
                      /\ frames' = [frames EXCEPT ![t] =
                              ListFinish(Logged(g, "warning"), f.partitions)]
                 ELSE /\ frames' = [frames EXCEPT ![t] = Raised(g, resp.err)]
                      /\ cache' = CacheAfterError(cache, key, f.partitions)
                      /\ UNCHANGED filled
        /\ UNCHANGED <<instance, client_glue, created, svc>>

-----------------------------------------------------------------------------
(* create_partition *)

\* line 133: if cls.get_partition(...): a response is truthy, None is not
ExistsNever(ret) == FALSE
Exists(ret) == ret.kind # "None"

\* again of a create_partition call: what the caller's call just before it did,
\* when that was a create_partition of the same table and key that returned
Again(f, table, partition) ==
    IF f.op = "create_partition" /\ f.table = table /\ f.partition = partition
       /\ f.outcome = "returned"
    THEN (IF f.answer = "found" THEN "existed"
          ELSE IF f.logs = <<"warning", "debug", "debug">> THEN "created"
          ELSE "failed")
    ELSE ""

\* create_partition leaves cls._cache as it is
CacheAfterCreateInvalidates(c, table) ==
    [k \in DOMAIN c \ {CacheKey(table[1], table[2])} |-> c[k]]
CacheAfterCreate(c, table) == c

\* lines 131-137: the precondition check
CreateCheck(t, table, raw, location) ==
    LET f == [NoFrame EXCEPT !.op = "create_partition", !.table = table,
                             !.partition = MapStr(raw), !.location = location,
                             !.again = Again(frames[t], table, MapStr(raw))]
    IN  /\ Ready(t)
        /\ GetClientStep
        /\ \E resp \in SvcGetPartition(svc, table, MapStr(raw)) :
             LET inner == GetPartitionOutcome([f EXCEPT !.answer = Answer(resp)], resp)
             IN  frames' = [frames EXCEPT ![t] =
                     IF inner.outcome = "raised" THEN inner
                     ELSE IF Exists(inner.ret)
                     THEN Returned(Logged(inner, "warning"), None)
                     ELSE [inner EXCEPT !.pc = "creating", !.outcome = "running",
                                        !.raw = raw]]
        /\ UNCHANGED <<instance, cache, svc, filled>>

\* lines 156-160: a 200 is logged at debug level, an exception at error level;
\* either way the call returns None
CreateOutcome(f, out) ==
    IF out.err = ""
    THEN Returned(IF out.status = 200 THEN Logged(f, "debug") ELSE f, None)
    ELSE Returned(Logged(Logged(f, "error"), "error"), None)

\* lines 137-160: the create request
CreateRequest(t) ==
    LET f == frames[t]
    IN  /\ f.pc = "creating"
        /\ \E out \in SvcCreatePartition(svc, f.table, MapStr(f.raw), f.location) :
             /\ svc' = out.svc
             /\ frames' = [frames EXCEPT ![t] =
                    CreateOutcome(
                        [Logged(f, "debug") EXCEPT !.ncreate = @ + 1, !.raw = <<>>,
                                                   !.location = "",
                                                   !.partition = MapStr(f.raw)],
                        out)]
        /\ cache' = CacheAfterCreate(cache, f.table)
        /\ UNCHANGED <<instance, client_glue, created, filled>>

-----------------------------------------------------------------------------
(* update_partition *)

\* lines 188-195: the status is logged, an exception is logged; the call returns None
UpdateOutcomeRaises(f, out) ==
    IF out.err = ""
    THEN Returned(Logged(f, IF out.status = 200 THEN "debug" ELSE "error"), None)
    ELSE Raised(f, out.err)
UpdateOutcome(f, out) ==
    IF out.err = ""
    THEN Returned(Logged(f, IF out.status = 200 THEN "debug" ELSE "error"), None)
    ELSE Returned(Logged(Logged(f, "error"), "error"), None)

\* what the service answered to update_partition
UpdateAnswer(out) ==
    IF out.err = "" THEN (IF out.status = 200 THEN "ok" ELSE "status")
    ELSE IF out.err = EntityNotFound THEN "notfound" ELSE "error"

UpdatePartition(t, table, raw, location) ==
    LET f == [NoFrame EXCEPT !.op = "update_partition", !.table = table,
                             !.partition = MapStr(raw), !.location = location]
    IN  /\ Ready(t)
        /\ GetClientStep
        /\ \E out \in SvcUpdatePartition(svc, table, MapStr(raw), location) :
             /\ svc' = out.svc
             /\ frames' = [frames EXCEPT ![t] =
                    UpdateOutcome([f EXCEPT !.answer = UpdateAnswer(out),
                                            !.location = ""], out)]
        /\ UNCHANGED <<instance, cache, filled>>

-----------------------------------------------------------------------------
(* The catalog outside the process: a table can be dropped at any time *)

DropTable(table) ==
    /\ svc[table].exists
    /\ svc' = [svc EXCEPT ![table] = [exists |-> FALSE, parts |-> <<>>]]
    /\ UNCHANGED <<instance, client_glue, created, cache, frames, filled>>

-----------------------------------------------------------------------------
(* Specifications *)

\* what T1 may hold before the first call, in the service's order
InitParts ==
    { <<>>, <<Record(KA, LocX)>>, <<Record(KB, LocX)>>,
      <<Record(KA, LocX), Record(KB, LocX)>>, <<Record(KB, LocX), Record(KA, LocX)>> }

InitCommon ==
    /\ instance = FALSE
    /\ client_glue = <<>>
    /\ created = 0
    /\ cache = [k \in {} |-> <<>>]
    /\ filled = [k \in {} |-> <<>>]
    /\ \E p \in InitParts :
          svc = [tb \in Tables |->
                    IF tb = T1 THEN [exists |-> TRUE, parts |-> p]
                    ELSE IF tb = T2 THEN [exists |-> TRUE, parts |-> <<Record(KC, LocX)>>]
                    ELSE [exists |-> TRUE,
                          parts |-> <<Record(KA, LocX), Record(KC, LocX), Record(KB, LocX)>>]]

\* one caller: the single-threaded use the class is written for
Init ==
    /\ InitCommon
    /\ frames = [t \in Threads |-> IF t = 1 THEN NoFrame ELSE [NoFrame EXCEPT !.pc = "off"]]

Instantiate == \E t \in Threads : New(t)
CallGetClient == \E t \in Threads : GetClient(t)
CallGetPartition == \E t \in Threads, tb \in Tables, raw \in RawKeys : GetPartition(t, tb, raw)
CallGetAllPartitions ==
    \E t \in Threads, tb \in Tables, flag \in BOOLEAN :
        ListStart(t, "get_all_partitions", tb, flag)
CallGetLastPartition ==
    \E t \in Threads, tb \in Tables, flag \in BOOLEAN :
        ListStart(t, "get_last_partition", tb, flag)
Paginate == \E t \in Threads : ListPage(t)
CallCreatePartition ==
    \E t \in Threads, tb \in WriteTables, raw \in WriteKeys, loc \in Locations :
        CreateCheck(t, tb, raw, loc)
Create == \E t \in Threads : CreateRequest(t)
CallUpdatePartition ==
    \E t \in Threads, tb \in WriteTables, raw \in WriteKeys, loc \in Locations :
        UpdatePartition(t, tb, raw, loc)
Drop == \E tb \in Droppable : DropTable(tb)

Next ==
    \/ Instantiate
    \/ CallGetClient
    \/ CallGetPartition
    \/ CallGetAllPartitions
    \/ CallGetLastPartition
    \/ Paginate
    \/ CallCreatePartition
    \/ Create
    \/ CallUpdatePartition
    \/ Drop

Spec == Init /\ [][Next]_vars

\* the single caller, whose running loop (lines 97-112) is not suspended for ever
SpecLive == Spec /\ WF_vars(Paginate)

\* two callers (threads) of the class, listing T1 and creating partitions in
\* it, while the catalog may lose the table
InitConc ==
    /\ InitCommon
    /\ frames = [t \in Threads |-> NoFrame]

ConcList == \E t \in Threads : ListStart(t, "get_all_partitions", T1, FALSE)
ConcCreate == \E t \in Threads, raw \in WriteKeys : CreateCheck(t, T1, raw, LocX)

NextConc ==
    \/ ConcList
    \/ Paginate
    \/ ConcCreate
    \/ Create
    \/ Drop

SpecConc == InitConc /\ [][NextConc]_vars

-----------------------------------------------------------------------------
(* Properties *)

ListOps == {"get_all_partitions", "get_last_partition"}

Key(f) == CacheKey(f.table[1], f.table[2])

\* the keys of all the pages a call received, in the order received
RECURSIVE Flat(_)
Flat(pages) == IF pages = <<>> THEN <<>> ELSE Head(pages) \o Flat(Tail(pages))

Count(seq, x) == Cardinality({i \in 1..Len(seq) : seq[i] = x})

Elems(seq) == {seq[i] : i \in 1..Len(seq)}

\* C1: a get_all_partitions call made right after one of the same table has
\* returned issues no get_partitions request and returns; with the same
\* only_first_value it returns the same list as the call before.
C1_CacheHit ==
    \A t \in Threads :
        LET f == frames[t]
        IN  (f.op = "get_all_partitions" /\ f.prev.val # <<>>) =>
                /\ f.pc = "done"
                /\ f.nreq = 0
                /\ f.outcome = "returned"
                /\ (f.flag = f.prev.flag => f.ret.val = f.prev.val[1])

\* C1 witness: the second call returned a non-empty list although the table has
\* been dropped from the catalog since the first one.
C1_Witness ==
    \E t \in Threads :
        LET f == frames[t]
        IN  /\ f.op = "get_all_partitions" /\ f.pc = "done"
            /\ f.prev.val # <<>> /\ f.prev.flag = f.flag
            /\ f.table = T1 /\ ~svc[T1].exists
            /\ f.ret.val # <<>>

NoDuplicates(parts) ==
    \A i, j \in 1..Len(parts) : parts[i].Values = parts[j].Values => i = j

Complete(f) ==
    f.op \in ListOps /\ f.pc = "done" /\ ~f.hit /\ f.nreq > 0 /\ f.logs = <<>>
    /\ f.exc \in {"", IndexError}

\* C3 as claimed: get_last_partition returns the partition whose first value is
\* the greatest of all the partitions the service returned for the table.
C3_LastIsGreatest ==
    \A t \in Threads :
        LET f == frames[t]
        IN  (f.op = "get_last_partition" /\ Complete(f) /\ f.outcome = "returned") =>
                \A k \in Elems(Flat(f.pages)) :
                    ~StrLess(IF f.flag THEN f.ret.val ELSE f.ret.val[1], k[1])

\* C4 as claimed: every cache entry is sorted descending by first value.
C4_CacheSorted ==
    \A key \in DOMAIN cache :
        \A i \in 1..(Len(cache[key]) - 1) :
            ~StrLess(cache[key][i][1], cache[key][i + 1][1])

\* C5: the list a cache miss aggregates holds exactly the keys of the pages
\* received, each as often as the pages hold it, so its length is the total
\* number of partitions of the pages; that list is what is returned and cached.
C5_Pagination ==
    \A t \in Threads :
        LET f == frames[t]
            all == Flat(f.pages)
        IN  (f.op \in ListOps /\ ~f.hit) =>
                /\ Len(f.partitions) = Len(all)
                /\ \A k \in Elems(all) \cup Elems(f.partitions) :
                       Count(f.partitions, k) = Count(all, k)
                /\ (f.pc = "done" /\ f.outcome = "returned" /\ f.op = "get_all_partitions"
                        => Len(f.ret.val) = Len(all))
                /\ (f.pc = "done" /\ f.exc # ServiceError
                        => Key(f) \in DOMAIN cache /\ cache[Key(f)] = f.partitions)

\* C5 witness: a listing that received three partitions in more than one page.
C5_Witness ==
    \E t \in Threads :
        LET f == frames[t]
        IN  /\ f.op = "get_all_partitions" /\ f.pc = "done" /\ f.outcome = "returned"
            /\ ~f.hit /\ Len(f.pages) >= 2 /\ Len(f.ret.val) = 3
            /\ \A i \in 1..Len(f.pages) : f.pages[i] # <<>>

\* C6: of two get_all_partitions calls of one table made one after the other
\* with different flags, the one with only_first_value returns the first
\* component of each entry the other returns, in the same order.
C6_FirstValues ==
    \A t \in Threads :
        LET f == frames[t]
            first == IF f.flag THEN f.ret.val ELSE f.prev.val[1]
            full == IF f.flag THEN f.prev.val[1] ELSE f.ret.val
        IN  (f.op = "get_all_partitions" /\ f.prev.val # <<>> /\ f.prev.flag # f.flag) =>
                /\ f.pc = "done" /\ f.outcome = "returned"
                /\ Len(first) = Len(full)
                /\ \A i \in 1..Len(full) : first[i] = full[i][1]

\* C6 witness: the call that filled the cache asked for first values, the one
\* after it for the keys, and the table has several partitions.
C6_Witness ==
    \E t \in Threads :
        LET f == frames[t]
        IN  /\ f.op = "get_all_partitions" /\ f.pc = "done" /\ ~f.flag
            /\ f.prev.val # <<>> /\ f.prev.flag
            /\ Len(f.ret.val) >= 2

\* the step is a step of caller t's call of op
StepOf(t, ops) == frames'[t] # frames[t] /\ frames'[t].op \in ops

\* C7: no step changes or removes a cache entry, the steps of create_partition,
\* update_partition and get_partition leave the whole cache as it is, and a
\* listing call that finds the entry returns what the entry holds.
C7_CacheFrame ==
    [][ /\ \A key \in DOMAIN cache : key \in DOMAIN cache' /\ cache'[key] = cache[key]
        /\ \A t \in Threads :
              /\ StepOf(t, {"create_partition", "update_partition", "get_partition"})
                    => cache' = cache
              /\ (StepOf(t, {"get_all_partitions"}) /\ Key(frames'[t]) \in DOMAIN cache)
                    => /\ frames'[t].pc = "done" /\ frames'[t].outcome = "returned"
                       /\ frames'[t].nreq = 0
                       /\ ~frames'[t].flag => frames'[t].ret.val = cache[Key(frames'[t])]
      ]_vars

\* C7 witness: a listing of T1 returned the cached list, which lacks a partition
\* created in T1 since the cache was filled.
C7_Witness ==
    \E t \in Threads :
        LET f == frames[t]
        IN  /\ f.op = "get_all_partitions" /\ f.pc = "done" /\ f.hit /\ ~f.flag
            /\ f.table = T1 /\ svc[T1].exists
            /\ f.ret.val = <<KA>>
            /\ HasKey(svc[T1].parts, KB)

\* C8: when the service answers get_partition with its not-found error, the
\* call returns None, raises nothing and logs a warning.
C8_AbsentIsNone ==
    \A t \in Threads :
        LET f == frames[t]
        IN  (f.op = "get_partition" /\ f.answer = "notfound") =>
                /\ f.pc = "done" /\ f.outcome = "returned" /\ f.exc = ""
                /\ f.ret = None
                /\ f.logs = <<"warning">>

\* C8 witness: get_partition of a key that an existing table does not hold.
C8_Witness ==
    \E t \in Threads :
        LET f == frames[t]
        IN  /\ f.op = "get_partition" /\ f.pc = "done" /\ f.answer = "notfound"
            /\ svc[f.table].exists /\ svc[f.table].parts # <<>>
            /\ ~HasKey(svc[f.table].parts, f.partition)
            /\ f.ret = None

\* C9 as claimed: create_partition never lets an exception reach its caller.
C9_CreateNeverRaises ==
    \A t \in Threads :
        frames[t].op = "create_partition" => frames[t].outcome # "raised"

\* C10: every step of update_partition ends the call with None returned and
\* the cache as it was; when the key does not exist, the status is not 200 or
\* the service raised, an error is logged.
C10_UpdateNeverRaises ==
    [][ \A t \in Threads :
          StepOf(t, {"update_partition"}) =>
              /\ frames'[t].pc = "done"
              /\ frames'[t].outcome = "returned" /\ frames'[t].exc = ""
              /\ frames'[t].ret = None
              /\ cache' = cache
              /\ frames'[t].answer # "ok" => "error" \in Elems(frames'[t].logs)
              /\ frames'[t].answer = "ok" => frames'[t].logs = <<"debug">>
              /\ ~(svc[frames'[t].table].exists
                    /\ HasKey(svc[frames'[t].table].parts, frames'[t].partition))
                    => frames'[t].answer \in {"notfound", "status", "error"}
      ]_vars

\* C10 witness: update_partition of a key the table does not hold returned with
\* an error logged, while the cache holds an entry.
C10_Witness ==
    \E t \in Threads :
        LET f == frames[t]
        IN  /\ f.op = "update_partition" /\ f.pc = "done" /\ f.answer = "notfound"
            /\ f.outcome = "returned" /\ "error" \in Elems(f.logs)
            /\ svc[f.table].exists /\ ~HasKey(svc[f.table].parts, f.partition)
            /\ DOMAIN cache # {}

\* C11: a get_last_partition call that gets an empty listing, from a table
\* without partitions, from a table the service does not find or from an empty
\* cache entry, raises IndexError to its caller and returns no value; one that
\* returns a value had a non-empty listing.
C11_EmptyRaises ==
    \A t \in Threads :
        LET f == frames[t]
        IN  (f.op = "get_last_partition" /\ f.pc = "done" /\ f.exc # ServiceError) =>
                /\ Key(f) \in DOMAIN cache
                /\ cache[Key(f)] = <<>> =>
                        f.outcome = "raised" /\ f.exc = IndexError /\ f.ret = None
                /\ cache[Key(f)] # <<>> => f.outcome = "returned"

\* C11 witness: get_last_partition of a table that exists and has no
\* partitions raised IndexError after one request.
C11_Witness ==
    \E t \in Threads :
        LET f == frames[t]
        IN  /\ f.op = "get_last_partition" /\ f.pc = "done"
            /\ f.outcome = "raised" /\ f.exc = IndexError
            /\ ~f.hit /\ f.pages = << <<>> >> /\ f.logs = <<>>
            /\ svc[f.table].exists /\ svc[f.table].parts = <<>>

\* C12 as claimed: create_client is called at most once, and every get_client()
\* returns the client it made.
C12_OneClient ==
    /\ created <= 1
    /\ \A t \in Threads :
          (frames[t].op = "get_client" /\ frames[t].pc = "done") => frames[t].ret.val = 1

\* the call caught the service's not-found error while paginating
CaughtNotFound(f) == f.op \in ListOps /\ "warning" \in Elems(f.logs)

\* C13: a listing call that catches not-found, on its first request or on a
\* later one, ends without that error reaching the caller, keeps the keys of
\* the pages received before it and stores them as the table's cache entry; a
\* call that finds an entry makes no request.
C13_NotFoundCached ==
    \A t \in Threads :
        LET f == frames[t]
        IN  /\ CaughtNotFound(f) =>
                /\ f.pc = "done" /\ f.exc \in {"", IndexError}
                /\ f.nreq = Len(f.pages) + 1
                /\ Len(f.partitions) = Len(Flat(f.pages))
                /\ Elems(f.partitions) = Elems(Flat(f.pages))
                /\ Key(f) \in DOMAIN cache /\ cache[Key(f)] = f.partitions
                /\ f.op = "get_all_partitions" =>
                      /\ f.outcome = "returned"
                      /\ Len(f.ret.val) = Len(f.partitions)
                      /\ ~f.flag => f.ret.val = f.partitions
            /\ (f.op \in ListOps /\ f.hit) => f.pc = "done" /\ f.nreq = 0

\* C13 witness: not-found came on the second request; the page received before
\* it was returned and is cached, and the table is gone.
C13_Witness ==
    \E t \in Threads :
        LET f == frames[t]
        IN  /\ f.op = "get_all_partitions" /\ CaughtNotFound(f) /\ f.pc = "done"
            /\ f.nreq = 2 /\ f.pages # <<>> /\ f.ret.val # <<>>
            /\ cache[Key(f)] # <<>>
            /\ ~svc[f.table].exists

\* caller t's listing ends in this step with line 116 executed
Stores(t) ==
    /\ frames[t].pc = "paging" /\ frames'[t].pc = "done"
    /\ frames'[t].exc # ServiceError

\* C14: nothing keeps two callers from paginating the same uncached table at
\* once: a caller that passed the miss check goes on paginating whatever the
\* cache holds by then, and when it ends it writes its own list over the entry,
\* so the entry is always the list of the caller that wrote last, and it
\* returns its own list.
C14_LastWriterWins ==
    [][ \A t \in Threads :
          /\ (frames[t].pc = "paging" /\ frames'[t] # frames[t]) =>
                  /\ ~frames[t].hit
                  /\ frames'[t].nreq = frames[t].nreq + 1
          /\ Stores(t) =>
                  /\ cache'[Key(frames[t])] = frames'[t].partitions
                  /\ frames'[t].ret.val = frames'[t].partitions
      ]_vars

\* C14 witness: both callers missed on T1 and paginated it; the table changed
\* between their requests, so they returned lists of different partitions, and
\* the cache holds the list of caller 2, who wrote last, over that of caller 1.
C14_Witness ==
    LET f == frames[1]
        g == frames[2]
    IN  /\ f.op = "get_all_partitions" /\ g.op = "get_all_partitions"
        /\ f.table = T1 /\ g.table = T1
        /\ f.pc = "done" /\ g.pc = "done"
        /\ f.outcome = "returned" /\ g.outcome = "returned"
        /\ ~f.hit /\ ~g.hit
        /\ Elems(f.ret.val) # Elems(g.ret.val)
        /\ cache[Key(f)] = g.ret.val

\* the requests of the call follow the token protocol so far
Protocol(f) ==
    /\ Len(f.sent) = f.nreq
    /\ f.nreq >= 1 => f.sent[1] = EmptyToken
    /\ \A i \in 2..Len(f.sent) :
          f.got[i - 1].hasNext /\ f.sent[i] = f.got[i - 1].NextToken
    /\ \A i \in 1..(Len(f.got) - 1) : f.got[i].hasNext

\* C15: on a miss the first request carries the empty token and each later one
\* the NextToken of the response before it; the loop goes on exactly while the
\* responses carry a NextToken and ends at the first response without one or
\* at an exception; and with a service whose pages end, a call that is
\* paginating comes to its end.
C15_TokenProtocol ==
    /\ [](\A t \in Threads :
            LET f == frames[t]
            IN  (f.op \in ListOps /\ ~f.hit) =>
                  /\ Protocol(f)
                  /\ f.pc = "paging" =>
                        /\ Len(f.got) = f.nreq
                        /\ f.nreq >= 1 => f.got[f.nreq].hasNext
                        /\ f.next_token =
                             (IF f.nreq = 0 THEN EmptyToken ELSE f.got[f.nreq].NextToken)
                  /\ f.pc = "done" =>
                        /\ f.nreq >= 1
                        /\ \/ Len(f.got) = f.nreq /\ ~f.got[f.nreq].hasNext
                           \/ Len(f.got) = f.nreq - 1
                                 /\ (f.exc = ServiceError \/ CaughtNotFound(f)))
    /\ \A t \in Threads : (frames[t].pc = "paging") ~> (frames[t].pc = "done")

\* C15 witness: a listing that made three requests, the second and third with
\* the tokens of the responses before them, and ended at the response without
\* a token.
C15_Witness ==
    \E t \in Threads :
        LET f == frames[t]
        IN  /\ f.op = "get_all_partitions" /\ f.pc = "done" /\ f.outcome = "returned"
            /\ f.nreq = 3 /\ Len(f.got) = 3
            /\ f.sent[1] = EmptyToken
            /\ f.sent[2] = f.got[1].NextToken /\ f.sent[2] # EmptyToken
            /\ f.sent[3] = f.got[2].NextToken /\ f.sent[3] # f.sent[2]
            /\ ~f.got[3].hasNext

\* C16: get_partition never reads or writes the cache: its step leaves the
\* cache as it is, and whatever the cache holds for the table its answer is
\* that of the service at the time of the call: the record the service holds
\* for the key, or None with a warning when the service holds none (table or
\* partition missing); any other service error is raised.
C16_BypassesCache ==
    [][ \A t \in Threads :
          StepOf(t, {"get_partition"}) =>
            LET f == frames'[t]
                held == svc[f.table].exists /\ HasKey(svc[f.table].parts, f.partition)
            IN  /\ cache' = cache /\ svc' = svc
                /\ f.pc = "done"
                /\ f.outcome = "returned" =>
                      IF held
                      THEN f.ret = [kind |-> "record",
                                    val |-> svc[f.table].parts[Find(svc[f.table].parts, f.partition)]]
                      ELSE f.ret = None /\ f.logs = <<"warning">>
                /\ f.outcome = "raised" => f.exc = ServiceError
      ]_vars

\* C16 witness: get_partition returned the record of a partition that the
\* table's cache entry, filled before the partition was created, does not list.
C16_Witness ==
    \E t \in Threads :
        LET f == frames[t]
        IN  /\ f.op = "get_partition" /\ f.pc = "done" /\ f.outcome = "returned"
            /\ f.ret # None /\ f.ret.val.Values = f.partition
            /\ Key(f) \in DOMAIN cache
            /\ filled[Key(f)] = f.table
            /\ f.partition \notin Elems(cache[Key(f)])

\* caller t's listing ends in this step with an exception of the service that
\* get_all_partitions does not catch
Propagates(t) ==
    /\ frames[t].pc = "paging" /\ frames'[t].pc = "done"
    /\ frames'[t].exc = ServiceError

\* caller t calls a listing of the table whose listing it last saw fail
Retries(t) ==
    /\ frames[t].op \in ListOps /\ frames[t].pc = "done"
    /\ frames[t].exc = ServiceError
    /\ StepOf(t, ListOps) /\ frames'[t].table = frames[t].table

\* C17: an exception of get_partitions other than not-found reaches the caller
\* of the listing; the step leaves the cache as it is, so the pages received
\* before it are in no entry, and the caller's next listing of the table finds
\* no entry and starts again with the empty token and no partitions.
C17_ErrorPropagates ==
    [][ \A t \in Threads :
          /\ Propagates(t) =>
                /\ cache' = cache /\ filled' = filled
                /\ frames'[t].outcome = "raised" /\ frames'[t].ret = None
                /\ frames'[t].logs = <<>>
                /\ Key(frames[t]) \notin DOMAIN cache'
          /\ Retries(t) =>
                /\ ~frames'[t].hit /\ frames'[t].pc = "paging"
                /\ frames'[t].next_token = EmptyToken
                /\ frames'[t].partitions = <<>>
                /\ frames'[t].nreq = 0 /\ frames'[t].sent = <<>>
      ]_vars

\* C17 witness: the second request of a listing failed with a service error
\* after a page had been received; the error was raised and the table has no
\* cache entry.
C17_Witness ==
    \E t \in Threads :
        LET f == frames[t]
        IN  /\ f.op = "get_all_partitions" /\ f.pc = "done"
            /\ f.outcome = "raised" /\ f.exc = ServiceError
            /\ f.nreq = 2 /\ Len(f.pages) = 1 /\ f.pages[1] # <<>>
            /\ f.partitions # <<>>
            /\ Key(f) \notin DOMAIN cache

\* C18 as claimed: the entries of distinct (database, table) pairs are
\* independent, also of pairs such as ("a.b", "c") and ("a", "b.c"): a listing
\* call is answered from the cache only by an entry that a listing of its own
\* (database, table) stored.
C18_EntriesIndependent ==
    \A t \in Threads :
        LET f == frames[t]
        IN  (f.op \in ListOps /\ f.hit) => filled[Key(f)] = f.table

====
